---- MODULE Spec2Model ----
(***************************************************************************)
(* Model of the llmperf token benchmark (token_benchmark_ray.py):          *)
(* get_token_throughput_latencies, the scheduler / drain loop around a     *)
(* RequestsLauncher, and metrics_summary, the summary aggregator.          *)
(*                                                                         *)
(* The control thread is sequential; its position is pc.  Workers of the   *)
(* client pool and the monotonic clock run concurrently with it, so the    *)
(* function is cut wherever it reads shared state: the loop condition      *)
(* (clock), launch_requests (pool), get_next_ready (pool), the read of     *)
(* end_time (clock).                                                       *)
(***************************************************************************)
EXTENDS Integers, Sequences, FiniteSets, TLC

\* ---- bounds of the model ------------------------------------------------
MaxConcurrency == 2
MaxRequests == 3
MaxClock == 2
MaxTokens == 1
MaxLatency == 1
MaxMetrics == 2

\* ---- values -------------------------------------------------------------
\* Python None for an absent error code.
None == "None"
ErrorCodes == {None, "E500"}
\* input_token_length of the one prompt used by every request (lines 92-97).
input_token_length == 2

VARIABLES
    num_concurrent_requests,    \* argument
    max_num_completed_requests, \* argument
    test_timeout_s,             \* argument
    additional_sampling_params, \* argument, after lines 78-79
    policy,                     \* submit at capacity: block or reject
    clock,                      \* time.monotonic()
    pc,                         \* position of the control thread
    fault,                      \* the exception that ended the run, if any
    iter,
    num_output_tokens_list,
    prompts,
    running,                    \* pool: ids of requests a worker is executing
    ready,                      \* pool: finished results not yet drained
    completed_requests,
    num_completed_requests,
    start_time,
    end_time,
    timed_out,                  \* the "Test timed out" message was printed
    submitted,                  \* ids the pool accepted
    launch_calls,               \* launch_requests calls made so far
    drains,                     \* get_next_ready calls: in loop, after it
    lateIds,                    \* ids finished after the final drain
    request_config,             \* the RequestConfig built last (line 117)
    ret                         \* result of metrics_summary

vars == <<num_concurrent_requests, max_num_completed_requests, test_timeout_s,
          policy, clock, pc, fault, iter, num_output_tokens_list, prompts,
          running, ready, completed_requests, num_completed_requests,
          start_time, end_time, timed_out, submitted, launch_calls, drains,
          lateIds, ret, additional_sampling_params, request_config>>

config == <<num_concurrent_requests, max_num_completed_requests,
            test_timeout_s, policy, additional_sampling_params>>

\* ---- helpers ------------------------------------------------------------
\* A quotient kept exact: Python's true division a / b.
Ratio(a, b) == [num |-> a, den |-> b]

\* A dictionary key that is not set.
Unset == [set |-> FALSE, num |-> 0, den |-> 1]

SetTo(a, b) == [set |-> TRUE, num |-> a, den |-> b]

RECURSIVE SeqSum(_)
SeqSum(s) == IF s = <<>> THEN 0 ELSE Head(s) + SeqSum(Tail(s))

Ids(s) == {s[i].id : i \in 1..Len(s)}

\* ---- the client call's result (API boundary) ----------------------------
\* What a worker hands back: the raw metrics and the generated text, the
\* text being kept as its token length (get_token_length, line 76).
RawOut(id, itl, e2e, err, toks) ==
    [id |-> id, inter_token_lat |-> itl, e2e_lat |-> e2e,
     num_input_tokens |-> input_token_length, error_code |-> err,
     gen_tokens |-> toks]

Outcomes(id) ==
    {RawOut(id, itl, e2e, err, toks) :
        itl \in 0..MaxLatency, e2e \in 0..MaxLatency,
        err \in ErrorCodes, toks \in 0..MaxTokens}

\* ---- Metrics Normalizer -------------------------------------------------
\* Variant: line 135 is missing, the accumulator is always divided.
normalize_in_loop_unguarded_tokens(out) ==
    LET n == out.gen_tokens IN
    [id |-> out.id,
     inter_token_lat |-> Ratio(out.inter_token_lat, n),
     num_output_tokens |-> n,
     num_total_tokens |-> out.num_input_tokens + n,
     num_input_tokens |-> out.num_input_tokens,
     e2e_lat |-> out.e2e_lat,
     error_code |-> out.error_code,
     request_output_throughput |->
         IF out.e2e_lat # 0 THEN SetTo(n, out.e2e_lat) ELSE Unset]

\* Lines 133-147: the loop body of the in-loop drain, for one result.
normalize_in_loop(out) ==
    LET n == out.gen_tokens IN
    [id |-> out.id,
     inter_token_lat |-> IF n # 0 THEN Ratio(out.inter_token_lat, n)
                                  ELSE Ratio(0, 1),
     num_output_tokens |-> n,
     num_total_tokens |-> out.num_input_tokens + n,
     num_input_tokens |-> out.num_input_tokens,
     e2e_lat |-> out.e2e_lat,
     error_code |-> out.error_code,
     request_output_throughput |->
         IF out.e2e_lat # 0 THEN SetTo(n, out.e2e_lat) ELSE Unset]

\* Lines 171-173: the division of the final drain has no guard, so it
\* raises on an end-to-end latency that is zero or absent.
final_division_raises(out) == out.e2e_lat = 0

\* Lines 161-175: the loop body of the final drain, for one result.
normalize_final(out) ==
    LET n == out.gen_tokens IN
    [id |-> out.id,
     inter_token_lat |-> IF n # 0 THEN Ratio(out.inter_token_lat, n)
                                  ELSE Ratio(0, 1),
     num_output_tokens |-> n,
     num_total_tokens |-> out.num_input_tokens + n,
     num_input_tokens |-> out.num_input_tokens,
     e2e_lat |-> out.e2e_lat,
     error_code |-> out.error_code,
     request_output_throughput |-> SetTo(n, out.e2e_lat)]

\* Variant: the in-loop drain keeps only the results without an error code.
all_metrics_in_loop_skips_errors(outs) ==
    LET kept == SelectSeq(outs, LAMBDA o : o.error_code = None)
    IN  [i \in 1..Len(kept) |-> normalize_in_loop(kept[i])]

RECURSIVE PrefixesUpTo(_, _)
PrefixesUpTo(s, k) ==
    IF k = 0 THEN <<>> ELSE PrefixesUpTo(s, k - 1) \o SubSeq(s, 1, k)

\* Variant: line 148 is indented into the for loop, so the growing
\* all_metrics is appended on every turn.
all_metrics_in_loop_extends_each_turn(outs) ==
    PrefixesUpTo([i \in 1..Len(outs) |-> normalize_in_loop(outs[i])],
                 Len(outs))

\* Lines 131-148: all_metrics of one in-loop drain.
all_metrics_in_loop(outs) ==
    [i \in 1..Len(outs) |-> normalize_in_loop(outs[i])]

\* Variant: the final drain loses the last result of its batch.
all_metrics_final_drops_last(outs) ==
    [i \in 1..(Len(outs) - 1) |-> normalize_final(outs[i])]

\* Lines 159-176: all_metrics of the final drain.
all_metrics_final(outs) ==
    [i \in 1..Len(outs) |-> normalize_final(outs[i])]

\* Variant: the batch is put in front of the accumulated records.
extend_in_front(list, batch) == batch \o list

\* Lines 148 and 176: list.extend.
extend(list, batch) == list \o batch

\* ---- Summary Aggregator -------------------------------------------------
NoReport ==
    [status |-> "none", raised |-> "none", num_requests_started |-> 0,
     number_errors |-> 0, error_rate |-> Ratio(0, 1),
     results_output_throughput |-> Ratio(0, 1),
     num_completed_requests |-> 0,
     num_completed_requests_per_min |-> Ratio(0, 1),
     series_output_tokens |-> <<>>, series_throughput |-> <<>>]

Raised(kind) == [NoReport EXCEPT !.status = "raised", !.raised = kind]

IsErrored(r) == r.error_code # None

\* Variant: line 231 filters nothing.
NotErrored_keeps_all(r) == TRUE

NotErrored(r) == r.error_code = None

HasThroughput(r) == r.request_output_throughput.set

\* Lines 197-292.  pd.DataFrame([]) has no columns, so line 231 raises
\* KeyError on an empty list; line 284 divides a Python int by the
\* duration and raises ZeroDivisionError when the duration is 0.
metrics_summary(metrics, st, et) ==
    LET df_without_errored_req == SelectSeq(metrics, NotErrored)
        num_errors == Len(SelectSeq(metrics, IsErrored))
        tokens == [i \in 1..Len(df_without_errored_req) |->
                      df_without_errored_req[i].num_output_tokens]
        withThroughput == SelectSeq(df_without_errored_req, HasThroughput)
    IN  IF Len(metrics) = 0 THEN Raised("KeyError:231")
        ELSE IF et - st = 0 THEN Raised("ZeroDivisionError:284")
        ELSE [status |-> "ok", raised |-> "none",
              num_requests_started |-> Len(metrics),
              number_errors |-> num_errors,
              error_rate |-> IF Len(metrics) # 0
                                THEN Ratio(num_errors, Len(metrics))
                                ELSE Ratio(0, 1),
              results_output_throughput |-> Ratio(SeqSum(tokens), et - st),
              num_completed_requests |-> Len(df_without_errored_req),
              num_completed_requests_per_min |->
                  Ratio(Len(df_without_errored_req) * 60, et - st),
              series_output_tokens |-> tokens,
              series_throughput |->
                  [i \in 1..Len(withThroughput) |->
                      withThroughput[i].request_output_throughput]]

\* ---- Scheduler / Drain Loop: pieces of the control flow -----------------
\* Variant: the count is compared with <= instead of <.
LoopCondition_off_by_one(now, st, timeout, n, max) ==
    now - st < timeout /\ n <= max

\* Variant: only the records without an error code are counted.
LoopCondition_counts_successes(now, st, timeout, n, max) ==
    /\ now - st < timeout
    /\ Len(SelectSeq(completed_requests, NotErrored)) < max

\* Lines 109-112.
LoopCondition(now, st, timeout, n, max) == now - st < timeout /\ n < max

\* Variant: the "not" of line 129 is missing.
DrainDue_negated(i, n) == i % n # 0

\* Line 129.
DrainDue(i, n) == i % n = 0

\* Variant: one client too many.
PoolCapacity_plus_one(n) == n + 1

\* Line 81: the pool is built with num_clients = num_concurrent_requests.
PoolCapacity(n) == n

\* Lines 99-104: the pre-built workload, one entry per request up to
\* max_num_completed_requests.  The sampled targets are positive integers.
SampledTarget(i) == 1 + (i % 2)

Workload(max) == [i \in 1..max |-> SampledTarget(i)]

Prompts(max) == [i \in 1..max |-> input_token_length]

\* ---- Request Spec -------------------------------------------------------
\* A dict without keys.
EmptyDict == [k \in {} |-> 0]

\* The keys a caller may pass as additional sampling parameters.
SamplingKeys == {"max_tokens", "temperature"}

\* The mappings a caller may pass; the values differ from every sampled
\* target.
AdditionalParamsChoices == UNION {[K -> {5}] : K \in SUBSET SamplingKeys}

\* Line 115: the base mapping.
default_sampling_params(target) == [k \in {"max_tokens"} |-> target]

\* Variant: keys the base mapping already has keep their value.
dict_update_keeps_base(base, add) ==
    [k \in DOMAIN base \cup DOMAIN add |->
        IF k \in DOMAIN base THEN base[k] ELSE add[k]]

\* Line 116: dict.update, the argument's values win.
dict_update(base, add) ==
    [k \in DOMAIN base \cup DOMAIN add |->
        IF k \in DOMAIN add THEN add[k] ELSE base[k]]

\* Lines 117-124 and models.py 19-25: the fields that vary per request.
RequestConfig(prompt, sampling_params) ==
    [prompt |-> prompt, sampling_params |-> sampling_params]

\* No request has been built yet.
NoRequest == RequestConfig(0, EmptyDict)

\* list.pop(): removes the last element.
PopRest(s) == SubSeq(s, 1, Len(s) - 1)

Elapsed == clock - start_time

\* ---- Client Pool --------------------------------------------------------
\* A slot is free while fewer workers are busy than the pool has clients.
has_free == Cardinality(running) < PoolCapacity(num_concurrent_requests)

\* submit at capacity: the pool blocks the caller until a slot frees, or
\* rejects the request; which of the two is the pool's policy.
launch_blocks == ~has_free /\ policy = "block"

\* drainReady: what finished since the last drain, in completion order.
get_next_ready == ready

\* ---- initial state: lines 71-108 have run -------------------------------
Init ==
    /\ num_concurrent_requests \in 1..MaxConcurrency
    /\ max_num_completed_requests \in 1..MaxRequests
    /\ test_timeout_s \in 1..(MaxClock + 1)
    /\ policy \in {"block", "reject"}
    /\ clock = 0
    /\ pc = "test"
    /\ fault = "none"
    /\ iter = 0
    /\ num_output_tokens_list = Workload(max_num_completed_requests)
    /\ prompts = Prompts(max_num_completed_requests)
    /\ running = {}
    /\ ready = <<>>
    /\ completed_requests = <<>>
    /\ num_completed_requests = 0
    /\ start_time = 0
    /\ end_time = 0
    /\ timed_out = FALSE
    /\ submitted = {}
    /\ launch_calls = 0
    /\ drains = [loop |-> {}, final |-> 0]
    /\ lateIds = {}
    /\ ret = NoReport
    /\ additional_sampling_params = EmptyDict
    /\ request_config = NoRequest

\* ---- the environment ----------------------------------------------------
\* time.monotonic() advances.
Tick ==
    /\ pc \notin {"done", "fault"}
    /\ clock < MaxClock
    /\ clock' = clock + 1
    /\ UNCHANGED <<config, request_config,
                   pc, fault, iter, num_output_tokens_list, prompts,
                   running, ready, completed_requests, num_completed_requests,
                   start_time, end_time, timed_out, submitted, launch_calls,
                   drains, lateIds, ret>>

\* A worker's blocking call returns: the result waits in the pool for the
\* next drain.  Request-level errors are data on the result.
Complete ==
    /\ pc \notin {"done", "fault"}
    /\ \E id \in running : \E out \in Outcomes(id) :
          /\ running' = running \ {id}
          /\ ready' = Append(ready, out)
          /\ lateIds' = IF pc = "summary" THEN lateIds \cup {id} ELSE lateIds
    /\ UNCHANGED <<config, request_config,
                   clock, pc, fault, iter, num_output_tokens_list,
                   prompts, completed_requests, num_completed_requests,
                   start_time, end_time, timed_out, submitted,
                   launch_calls, drains, ret>>

\* ---- the control thread -------------------------------------------------
\* Lines 109-112: the loop condition is evaluated.
LoopTest ==
    /\ pc = "test"
    /\ pc' = IF LoopCondition(clock, start_time, test_timeout_s,
                              Len(completed_requests),
                              max_num_completed_requests)
                THEN "body" ELSE "close"
    /\ UNCHANGED <<config, request_config,
                   clock, fault, iter, num_output_tokens_list,
                   prompts, running, ready, completed_requests,
                   num_completed_requests, start_time, end_time, timed_out,
                   submitted, launch_calls, drains, lateIds, ret>>

\* Line 115 on an empty list: list.pop() raises IndexError.
IteratePopEmpty ==
    /\ pc = "body"
    /\ num_output_tokens_list = <<>>
    /\ iter' = iter + 1
    /\ pc' = "fault"
    /\ fault' = "IndexError:115"
    /\ UNCHANGED <<config, request_config,
                   clock, num_output_tokens_list, prompts, running,
                   ready, completed_requests, num_completed_requests,
                   start_time, end_time, timed_out, submitted, launch_calls,
                   drains, lateIds, ret>>

\* Lines 113-125 and, when no drain is due, lines 149-150: one workload
\* entry is popped and the request is handed to launch_requests.  At
\* capacity the pool either blocks the call until a slot frees or rejects
\* the request; line 125 ignores what the call returns.
Iterate ==
    /\ pc = "body"
    /\ num_output_tokens_list # <<>>
    /\ ~launch_blocks
    /\ iter' = iter + 1
    /\ launch_calls' = launch_calls + 1
    /\ num_output_tokens_list' = PopRest(num_output_tokens_list)
    /\ prompts' = PopRest(prompts)
    /\ request_config' =
           RequestConfig(prompts[Len(prompts)],
                         dict_update(default_sampling_params(
                                         num_output_tokens_list[
                                             Len(num_output_tokens_list)]),
                                     additional_sampling_params))
    /\ IF has_free
          THEN /\ running' = running \cup {iter'}
               /\ submitted' = submitted \cup {iter'}
          ELSE UNCHANGED <<running, submitted>>
    /\ IF DrainDue(iter', num_concurrent_requests)
          THEN /\ pc' = "drain"
               /\ UNCHANGED num_completed_requests
          ELSE /\ pc' = "test"
               /\ num_completed_requests' = Len(completed_requests)
    /\ UNCHANGED <<config, clock, fault, ready, completed_requests,
                   start_time, end_time, timed_out, drains, lateIds, ret>>

\* Lines 130-150: the in-loop drain.  get_next_ready does not block and
\* returns what finished since the last drain.
Drain ==
    /\ pc = "drain"
    /\ completed_requests' =
           extend(completed_requests, all_metrics_in_loop(get_next_ready))
    /\ ready' = <<>>
    /\ num_completed_requests' = Len(completed_requests')
    /\ drains' = [drains EXCEPT !.loop = @ \cup {iter}]
    /\ pc' = "test"
    /\ UNCHANGED <<config, request_config,
                   clock, fault, iter, num_output_tokens_list,
                   prompts, running, start_time, end_time, timed_out,
                   submitted, launch_calls, lateIds, ret>>

\* Lines 152-155.  Time has passed since line 106 read the clock: the run
\* has gone through at least one iteration and a pool call.
Close ==
    /\ pc = "close"
    /\ clock > start_time
    /\ end_time' = clock
    /\ timed_out' = (clock - start_time >= test_timeout_s)
    /\ pc' = "final"
    /\ UNCHANGED <<config, request_config,
                   clock, fault, iter, num_output_tokens_list,
                   prompts, running, ready, completed_requests,
                   num_completed_requests, start_time, submitted, launch_calls,
                   drains, lateIds, ret>>

\* Lines 158-176: the final drain.  The division of line 172 raises on the
\* first result whose end-to-end latency is zero, before line 176 extends
\* the accumulated list.
FinalDrain ==
    /\ pc = "final"
    /\ ready' = <<>>
    /\ drains' = [drains EXCEPT !.final = @ + 1]
    /\ IF \E i \in 1..Len(get_next_ready) :
              final_division_raises(get_next_ready[i])
          THEN /\ pc' = "fault"
               /\ fault' = "ZeroDivisionError:172"
               /\ UNCHANGED completed_requests
          ELSE /\ pc' = "summary"
               /\ completed_requests' =
                      extend(completed_requests,
                             all_metrics_final(get_next_ready))
               /\ UNCHANGED fault
    /\ UNCHANGED <<config, request_config,
                   clock, iter, num_output_tokens_list, prompts,
                   running, num_completed_requests, start_time, end_time,
                   timed_out, submitted, launch_calls, lateIds, ret>>

\* Lines 178-194: the summary is computed and the run returns.
Summarize ==
    /\ pc = "summary"
    /\ ret' = metrics_summary(completed_requests, start_time, end_time)
    /\ IF ret'.status = "raised"
          THEN /\ pc' = "fault"
               /\ fault' = ret'.raised
          ELSE /\ pc' = "done"
               /\ UNCHANGED fault
    /\ UNCHANGED <<config, request_config,
                   clock, iter, num_output_tokens_list, prompts,
                   running, ready, completed_requests,
                   num_completed_requests, start_time, end_time, timed_out,
                   submitted, launch_calls, drains, lateIds>>

Next ==
    \/ Tick
    \/ Complete
    \/ LoopTest
    \/ IteratePopEmpty
    \/ Iterate
    \/ Drain
    \/ Close
    \/ FinalDrain
    \/ Summarize

Spec == Init /\ [][Next]_vars

\* ---- metrics_summary called on its own ----------------------------------
\* The lists a caller can pass: normalized records, numbered by position.
MetricLists ==
    UNION {{[i \in 1..n |-> normalize_in_loop([f[i] EXCEPT !.id = i])] :
               f \in [1..n -> Outcomes(0)]} : n \in 0..MaxMetrics}

InitSummary ==
    /\ num_concurrent_requests = 1
    /\ max_num_completed_requests = MaxMetrics
    /\ test_timeout_s = MaxClock + 1
    /\ policy = "block"
    /\ clock = 0
    /\ pc = "summary"
    /\ fault = "none"
    /\ iter = 0
    /\ num_output_tokens_list = <<>>
    /\ prompts = <<>>
    /\ running = {}
    /\ ready = <<>>
    /\ completed_requests \in MetricLists
    /\ num_completed_requests = Len(completed_requests)
    /\ start_time \in 0..MaxClock
    /\ end_time \in 0..MaxClock
    /\ timed_out = FALSE
    /\ submitted = {}
    /\ launch_calls = 0
    /\ drains = [loop |-> {}, final |-> 0]
    /\ lateIds = {}
    /\ ret = NoReport
    /\ additional_sampling_params = EmptyDict
    /\ request_config = NoRequest

NextSummary == Summarize

SpecSummary == InitSummary /\ [][NextSummary]_vars

\* ---- properties ---------------------------------------------------------
\* The loop has been left through its condition (line 109 evaluated false).
LoopExited ==
    \/ pc \in {"close", "final", "summary", "done"}
    \/ pc = "fault" /\ fault # "IndexError:115"

ScenarioC ==
    /\ num_concurrent_requests = 1
    /\ max_num_completed_requests = 3
    /\ test_timeout_s > MaxClock

\* C1: with concurrency 1, 3 requests to complete and a timeout that never
\* fires, every run ends without a fault, with exactly 3 records
\* accumulated and exactly 3 requests submitted.
C1_ScenarioC ==
    ScenarioC =>
        /\ fault = "none"
        /\ pc = "done" =>
              /\ Len(completed_requests) = 3
              /\ Cardinality(submitted) = 3

\* C2: the step that follows the loop's exit is one drain that appends
\* every result that was finished and not yet harvested to the accumulated
\* records, which then go to the summary.
C2_Step ==
    (pc = "final" /\ pc' # "final") =>
        /\ pc' = "summary"
        /\ drains'.final = 1
        /\ Len(completed_requests') = Len(completed_requests) + Len(ready)
        /\ Ids(completed_requests') = Ids(completed_requests) \cup Ids(ready)

C2_FinalDrainCollects == [][C2_Step]_vars

C4_Start ==
    (pc = "test" /\ pc' = "body") =>
        /\ Elapsed < test_timeout_s
        /\ Len(completed_requests) < max_num_completed_requests

C4_Exited ==
    LoopExited =>
        \/ Elapsed >= test_timeout_s
        \/ Len(completed_requests) >= max_num_completed_requests

C4_LoopCondition == [][C4_Start]_vars /\ []C4_Exited

C4_Witness ==
    /\ pc = "close"
    /\ Elapsed < test_timeout_s
    /\ Len(completed_requests) = max_num_completed_requests
    /\ iter >= 2

\* Iterations that have gone past line 129 and, where due, through their
\* drain.
IterationsDone ==
    IF pc = "drain" \/ fault = "IndexError:115" THEN iter - 1 ELSE iter

C5_NoDrainStep ==
    (pc = "body" /\ pc' \notin {"body", "fault"}
                 /\ iter' % num_concurrent_requests # 0) =>
        /\ pc' = "test"
        /\ launch_calls' = launch_calls + 1
        /\ Len(num_output_tokens_list') = Len(num_output_tokens_list) - 1
        /\ completed_requests' = completed_requests

C5_DrainStep ==
    (pc = "body" /\ pc' \notin {"body", "fault"}
                 /\ iter' % num_concurrent_requests = 0) =>
        pc' = "drain"

\* C5: the loop drains in iteration i exactly when i is a positive multiple
\* of the concurrency level; every other iteration hands one request to the
\* pool and leaves the accumulated list as it is.
C5_DrainCadence ==
    /\ [](drains.loop =
             {i \in 1..IterationsDone : i % num_concurrent_requests = 0})
    /\ [][C5_NoDrainStep /\ C5_DrainStep]_vars

C5_Witness ==
    /\ num_concurrent_requests = 2
    /\ iter = 3
    /\ pc = "test"
    /\ drains.loop = {2}
    /\ launch_calls = 3

\* C6: never more requests in flight than the concurrency level, and no
\* accepted request waits anywhere but with a worker or as a result.
C6_InFlightBounded ==
    /\ Cardinality(running) <= num_concurrent_requests
    /\ pc # "fault" =>
          submitted = running \cup Ids(ready) \cup Ids(completed_requests)

C6_Witness ==
    /\ num_concurrent_requests = 2
    /\ Cardinality(running) = 2
    /\ pc = "body"
    /\ launch_calls >= 2

\* C7: in the in-loop drain and in the final drain alike, a result whose
\* end-to-end latency is zero or absent gets no throughput and no division
\* is attempted.
C7_BothDrainsGuarded ==
    /\ fault # "ZeroDivisionError:172"
    /\ \A i \in 1..Len(completed_requests) :
          completed_requests[i].e2e_lat = 0
              => ~completed_requests[i].request_output_throughput.set

\* C8: a run that ends with no record accumulated still gets a report from
\* metrics_summary, with error rate 0 and empty quantile sets.
C8_EmptyRunReports ==
    (ret.status # "none" /\ Len(completed_requests) = 0) =>
        /\ ret.status = "ok"
        /\ ret.error_rate.num = 0
        /\ ret.series_output_tokens = <<>>
        /\ ret.series_throughput = <<>>

\* C9: metrics_summary called with end_time - start_time <= 0 raises and
\* returns no report.
C9_NonPositiveDurationRaises ==
    (ret.status # "none" /\ end_time - start_time <= 0) =>
        ret.status = "raised"

ErroredIn(s) == {i \in 1..Len(s) : s[i].error_code # None}

C10_DrainStep ==
    (pc = "drain" /\ pc' # "drain") =>
        /\ pc' = "test"
        /\ fault' = "none"
        /\ Len(completed_requests') = Len(completed_requests) + Len(ready)
        /\ \A i \in 1..Len(ready) :
              LET r == completed_requests'[Len(completed_requests) + i]
              IN  /\ r.id = ready[i].id
                  /\ r.error_code = ready[i].error_code
                  /\ r.num_output_tokens = ready[i].gen_tokens
        /\ \A i \in 1..Len(completed_requests) :
              completed_requests'[i] = completed_requests[i]

C10_TestStep ==
    (pc = "test" /\ pc' # "test"
                 /\ Elapsed < test_timeout_s
                 /\ Len(completed_requests) < max_num_completed_requests) =>
        pc' = "body"

C10_OnlyPoolFault ==
    (pc \in {"test", "body", "drain"} /\ pc' = "fault") =>
        /\ fault' = "IndexError:115"
        /\ num_output_tokens_list = <<>>

\* C10: a drained result with an error code is normalized and accumulated
\* like any other, the loop goes on while its condition holds however many
\* errored records are accumulated, and no fault of the loop comes from an
\* error code.
C10_ErrorsAreData ==
    [][C10_DrainStep /\ C10_TestStep /\ C10_OnlyPoolFault]_vars

C10_Witness ==
    /\ pc = "body"
    /\ Cardinality(ErroredIn(completed_requests)) >= 2
    /\ num_output_tokens_list # <<>>

C11_Step ==
    (pc \in {"drain", "final"} /\ pc' \in {"test", "summary"}) =>
        /\ Len(completed_requests') = Len(completed_requests) + Len(ready)
        /\ \A i \in 1..Len(ready) :
              LET r == completed_requests'[Len(completed_requests) + i]
                  o == ready[i]
              IN  /\ r.num_output_tokens = o.gen_tokens
                  /\ o.gen_tokens = 0 => r.inter_token_lat = Ratio(0, 1)
                  /\ o.gen_tokens > 0 =>
                        /\ r.inter_token_lat =
                               Ratio(o.inter_token_lat, o.gen_tokens)
                        /\ r.inter_token_lat.den # 0
                  /\ r.num_total_tokens = o.num_input_tokens + o.gen_tokens

\* C11: in the in-loop drain and in the final drain a result with zero
\* output tokens gets inter-token latency exactly 0, without a division; a
\* result with n > 0 output tokens gets the raw accumulator divided by n,
\* and total tokens = input tokens + n.
C11_InterTokenLatency == [][C11_Step]_vars

\* Both drains have harvested: a zero-token record came in by the final
\* drain, a record with tokens and a non-zero accumulator in the loop.
C11_Witness ==
    /\ pc = "summary"
    /\ \E i \in 1..Len(completed_requests) :
          /\ i > num_completed_requests
          /\ completed_requests[i].num_output_tokens = 0
          /\ completed_requests[i].inter_token_lat = Ratio(0, 1)
    /\ \E i \in 1..Len(completed_requests) :
          /\ i <= num_completed_requests
          /\ completed_requests[i].num_output_tokens > 0
          /\ completed_requests[i].inter_token_lat.num > 0

Successful(s) == {i \in 1..Len(s) : s[i].error_code = None}

RECURSIVE SuccessfulTokens(_)
SuccessfulTokens(s) ==
    IF s = <<>> THEN 0
    ELSE (IF Head(s).error_code = None THEN Head(s).num_output_tokens ELSE 0)
             + SuccessfulTokens(Tail(s))

\* C12: for every list of records the reported error rate lies in [0,1],
\* is errored / total when there are records, and is 0 when there are no
\* records or no errored ones.
C12_ErrorRate ==
    (ret.status # "none" /\ end_time - start_time > 0) =>
        /\ ret.status = "ok"
        /\ ret.error_rate.den > 0
        /\ 0 <= ret.error_rate.num
        /\ ret.error_rate.num <= ret.error_rate.den
        /\ Len(completed_requests) > 0 =>
              ret.error_rate =
                  Ratio(Cardinality(ErroredIn(completed_requests)),
                        Len(completed_requests))
        /\ (Len(completed_requests) = 0 \/ ErroredIn(completed_requests) = {})
              => ret.error_rate.num = 0

\* C13: for every list of records and every test window the reported
\* aggregate output throughput is >= 0, is the sum of the output tokens of
\* the non-errored records over end_time - start_time, and is 0 when every
\* record is errored.
C13_OutputThroughput ==
    ret.status = "ok" =>
        /\ ret.results_output_throughput =
               Ratio(SuccessfulTokens(completed_requests),
                     end_time - start_time)
        /\ ret.results_output_throughput.den # 0
        /\ ret.results_output_throughput.num
               * ret.results_output_throughput.den >= 0
        /\ Successful(completed_requests) = {}
              => ret.results_output_throughput.num = 0

\* C14: completed count + error count = total requests = number of records
\* given, and errored records enter no series and no throughput figure.
C14_Partition ==
    ret.status = "ok" =>
        /\ ret.num_requests_started = Len(completed_requests)
        /\ ret.num_completed_requests + ret.number_errors
               = ret.num_requests_started
        /\ ret.num_completed_requests
               = Cardinality(Successful(completed_requests))
        /\ ret.number_errors = Cardinality(ErroredIn(completed_requests))
        /\ ret.error_rate = Ratio(ret.number_errors, Len(completed_requests))
        /\ Len(ret.series_output_tokens) = ret.num_completed_requests
        /\ SeqSum(ret.series_output_tokens)
               = SuccessfulTokens(completed_requests)
        /\ Len(ret.series_throughput) <= ret.num_completed_requests
        /\ ret.results_output_throughput.num
               = SuccessfulTokens(completed_requests)
        /\ ret.num_completed_requests_per_min.num
               = 60 * Cardinality(Successful(completed_requests))

\* Half of the records errored, the errored one with output tokens.
C14_Witness ==
    /\ ret.status = "ok"
    /\ ret.number_errors = 1
    /\ ret.num_completed_requests = 1
    /\ ret.error_rate = Ratio(1, 2)
    /\ \E i \in ErroredIn(completed_requests) :
          /\ completed_requests[i].num_output_tokens > 0
          /\ completed_requests[i].request_output_throughput.set

C15_Step ==
    /\ Len(completed_requests') >= Len(completed_requests)
    /\ \A i \in 1..Len(completed_requests) :
          completed_requests'[i] = completed_requests[i]
    /\ (pc \in {"drain", "final"} /\ pc' \in {"test", "summary"}) =>
          /\ Len(completed_requests') = Len(completed_requests) + Len(ready)
          /\ \A i \in 1..Len(ready) :
                completed_requests'[Len(completed_requests) + i].id
                    = ready[i].id

\* C15: the accumulated list is append-only and every drain's batch goes,
\* in the order the pool returned it, behind the records of earlier drains.
C15_DrainOrder == [][C15_Step]_vars

\* A request submitted later is accumulated, by an in-loop drain, before a
\* request submitted earlier that the final drain collects.
C15_Witness ==
    /\ pc = "summary"
    /\ \E i, j \in 1..Len(completed_requests) :
          /\ i <= num_completed_requests
          /\ num_completed_requests < j
          /\ completed_requests[i].id > completed_requests[j].id

\* C16: a run gets through the final drain and the summary and returns a
\* report; a loop exit by timeout is reported and goes on to the final
\* drain and a summary of the partial results, never to a failure.
C16_RunsReturnReport ==
    timed_out =>
        /\ pc \in {"final", "summary", "done"}
        /\ pc = "done" => ret.status = "ok"

\* C17: the workload lists are never popped when empty: no more than
\* max_num_completed_requests iterations are started.
C17_WorkloadNeverExhausted ==
    /\ iter <= max_num_completed_requests
    /\ fault # "IndexError:115"

\* C18: every accumulated record has its derived fields filled in, no
\* result is handed out by two drains and no record is accumulated twice.
C18_NormalizedOnce ==
    /\ Cardinality(Ids(completed_requests)) = Len(completed_requests)
    /\ Cardinality(Ids(ready)) = Len(ready)
    /\ Ids(completed_requests) \cap Ids(ready) = {}
    /\ Ids(completed_requests) \cap running = {}
    /\ Ids(ready) \cap running = {}
    /\ \A i \in 1..Len(completed_requests) :
          LET r == completed_requests[i]
              n == r.num_output_tokens
          IN  /\ n \in 0..MaxTokens
              /\ r.num_total_tokens = r.num_input_tokens + n
              /\ r.inter_token_lat.den = (IF n = 0 THEN 1 ELSE n)
              /\ n = 0 => r.inter_token_lat.num = 0
              /\ r.request_output_throughput.set =>
                    /\ r.request_output_throughput.num = n
                    /\ r.request_output_throughput.den = r.e2e_lat

\* Records of a two-result in-loop batch and of the final drain.
C18_Witness ==
    /\ pc = "summary"
    /\ Len(completed_requests) = 3
    /\ num_completed_requests = 2
    /\ drains.loop = {2}

\* C19: the report's total of requests started is the number of requests
\* the scheduler submitted to the pool.
C19_StartedIsSubmitted ==
    pc = "done" => ret.num_requests_started = Cardinality(submitted)

C20_Step ==
    (pc = "test" /\ pc' # "test"
                 /\ Len(completed_requests) >= max_num_completed_requests)
        => pc' = "close"

C20_Done ==
    (pc = "done" /\ ~timed_out) =>
        /\ Len(completed_requests) >= max_num_completed_requests
        /\ ret.num_completed_requests
               = Len(completed_requests)
                     - Cardinality(ErroredIn(completed_requests))

\* C20: the loop stops by count once the accumulated records, errored ones
\* included, reach max_num_completed_requests; a run that did not time out
\* has accumulated that many records, of which the report counts only the
\* non-errored ones as completed.
C20_StopCountsErrors == [][C20_Step]_vars /\ []C20_Done

\* A run without timeout that reports fewer completed requests than
\* max_num_completed_requests.
C20_Witness ==
    /\ pc = "done"
    /\ ~timed_out
    /\ ret.number_errors >= 1
    /\ ret.num_completed_requests < max_num_completed_requests
    /\ ret.num_completed_requests >= 1

\* ---- runs with user-supplied sampling parameters --------------------------
\* The state after line 106 when the caller passes additional sampling
\* parameters; the timeout lies beyond the modelled clock.
InitRequests ==
    /\ num_concurrent_requests \in 1..MaxConcurrency
    /\ max_num_completed_requests \in 1..MaxRequests
    /\ test_timeout_s = MaxClock + 1
    /\ policy \in {"block", "reject"}
    /\ additional_sampling_params \in AdditionalParamsChoices
    /\ clock = 0
    /\ pc = "test"
    /\ fault = "none"
    /\ iter = 0
    /\ num_output_tokens_list = Workload(max_num_completed_requests)
    /\ prompts = Prompts(max_num_completed_requests)
    /\ running = {}
    /\ ready = <<>>
    /\ completed_requests = <<>>
    /\ num_completed_requests = 0
    /\ start_time = 0
    /\ end_time = 0
    /\ timed_out = FALSE
    /\ submitted = {}
    /\ launch_calls = 0
    /\ drains = [loop |-> {}, final |-> 0]
    /\ lateIds = {}
    /\ ret = NoReport
    /\ request_config = NoRequest

SpecRequests == InitRequests /\ [][Next]_vars

\* One loop turn built a Request Spec: line 113 counted the turn and the
\* pops of lines 115 and 119 did not raise.
C21_Built == pc = "body" /\ iter' = iter + 1 /\ pc' # "fault"

C21_Step ==
    /\ additional_sampling_params' = additional_sampling_params
    /\ C21_Built =>
          LET sp == request_config'.sampling_params
              user == additional_sampling_params
              target == num_output_tokens_list[Len(num_output_tokens_list)]
          IN  /\ DOMAIN sp = {"max_tokens"} \cup DOMAIN user
              /\ \A k \in DOMAIN user : sp[k] = user[k]
              /\ "max_tokens" \notin DOMAIN user => sp["max_tokens"] = target

\* C21: the sampling parameters of every Request Spec built are the base
\* mapping {max_tokens: sampled target} updated with the user's additional
\* parameters: every user key carries the user's value (a user max_tokens
\* replaces the sampled one), max_tokens is always present, and the user's
\* mapping itself never changes.
C21_SamplingParams == [][C21_Step]_vars

\* A second Request Spec was built for a caller who passes max_tokens and
\* another key, and it carries the caller's max_tokens.
C21_Witness ==
    /\ iter >= 2
    /\ DOMAIN additional_sampling_params = SamplingKeys
    /\ request_config # NoRequest
    /\ request_config.sampling_params["max_tokens"]
          = additional_sampling_params["max_tokens"]
    /\ request_config.sampling_params["max_tokens"] \notin 1..(MaxTokens + 1)

====
